---- MODULE Spec2Model ----
(***************************************************************************)
(* PrepPilot AI: the quiz session state machine and its countdown timer.   *)
(*                                                                         *)
(* The React component App (src/unnamed/part_000, lines 30-558) keeps the  *)
(* session in one useState object `state` (QuizState, src/src/types.ts)    *)
(* and two transient useState cells, `selectedOption` and `isAnswered`.    *)
(* Every handler below is one action: the handler's own early returns are  *)
(* its IF, the condition under which the element that calls it is rendered *)
(* is its guard, and the functional updates it queues are applied in the   *)
(* same step (React commits a discrete event's updates before the next     *)
(* event is dispatched).  The two awaited service calls are split in two   *)
(* steps, the call and its settlement, with the call in `inflight`.        *)
(*                                                                         *)
(* The timer is the useEffect of lines 49-62.  Its interval exists exactly *)
(* while the committed state satisfies the effect's first condition (the   *)
(* cleanup clears it whenever a dependency changes, long before another    *)
(* period of 1000 ms elapses), so `tick` is guarded by that condition.     *)
(* The effect's else-branch runs for the render that shows 0 seconds in    *)
(* status active.  That render is caused by the interval, not by a user    *)
(* event, so React runs its effects later: `timerEffect` is "pending"      *)
(* from that commit on.  One user event may be handled on that screen; the *)
(* update it queues makes React run the outstanding effect before it       *)
(* renders again, so the effect's update is applied right behind the       *)
(* handler's ("due": nothing but `timerExpired` can happen next).          *)
(***************************************************************************)
EXTENDS Integers, Sequences, FiniteSets, TLC

VARIABLES
    state,            \* the QuizState object of useState (lines 31-44)
    selectedOption,   \* useState<number | null> (line 46)
    isAnswered,       \* useState(false) (line 47)
    inflight,         \* the awaited service calls that have not settled yet, in call order
    mounted,          \* FALSE once a render has thrown and React removed the tree
    timerEffect,      \* the else-branch of the timer effect: "idle", "pending", "due"
    ticks,            \* history: interval callbacks run since the quiz started
    expirations       \* history: forced completions since the quiz started

vars ==
    <<state, selectedOption, isAnswered, inflight, mounted, timerEffect, ticks,
      expirations>>

----------------------------------------------------------------------------
(* Values *)

\* `null` of the fields typed number | null (answers, selectedOption).
Null == -1

\* `null` of selectedSection (string | null).
NoSection == "<null>"

\* `undefined` of the optional field error.
Undefined == "<undefined>"

\* One minute per question (line 102).
SecondsPerQuestion == 60

\* The menu of question counts offered by the setup screen (line 264).
QuestionCounts == {5, 10, 20, 50}

\* Largest question count the model picks from the menu.
MaxQuestionCount == 10

\* Longest question list a generation response carries.
MaxQuestions == 2

\* Largest number of grounding chunks a lookup response carries.
MaxChunks == 4

\* Exam names typed into the input, as sequences of characters.
ExamNames == { <<>>, <<" ">>, <<"C", "C">> }

\* The fallback of getExamSections (lines 604 and 610).
FallbackSections ==
    <<"General Knowledge", "Core Concepts", "Advanced Topics", "Practice Set">>

\* The message of the Error thrown by generateQuestions (line 661).
GenerateFailedMessage == "Failed to generate questions. Please try again."

\* Message of a rejected service call (network or API failure).
CallFailedMessage == "Request failed"

----------------------------------------------------------------------------
(* Pure helpers *)

IsSpace(c) == c = " "

RECURSIVE TrimStart(_)
TrimStart(s) ==
    IF s # <<>> /\ IsSpace(Head(s)) THEN TrimStart(Tail(s)) ELSE s

RECURSIVE TrimEnd(_)
TrimEnd(s) ==
    IF s # <<>> /\ IsSpace(s[Len(s)]) THEN TrimEnd(SubSeq(s, 1, Len(s) - 1)) ELSE s

\* String.prototype.trim (line 72).
Trim(s) == TrimEnd(TrimStart(s))

\* Array.prototype.slice(0, n).
Slice(s, n) == SubSeq(s, 1, IF Len(s) < n THEN Len(s) ELSE n)

\* The pending calls without the i-th, which has settled.
Remove(s, i) == SubSeq(s, 1, i - 1) \o SubSeq(s, i + 1, Len(s))

\* new Array(n).fill(null) (line 104).
FillNull(n) == [i \in 1..n |-> Null]

\* The initial QuizState (lines 31-44); it has no error key.
InitialState ==
    [ examName             |-> <<>>,
      sections             |-> <<>>,
      sources              |-> <<>>,
      selectedSection      |-> NoSection,
      questionCount        |-> 5,
      timeRemaining        |-> 0,
      isTimerRunning       |-> FALSE,
      questions            |-> <<>>,
      currentQuestionIndex |-> 0,
      score                |-> 0,
      answers              |-> <<>>,
      status               |-> "idle",
      error                |-> Undefined ]

\* The question on screen: state.questions[state.currentQuestionIndex]
\* (lines 114 and 355); JavaScript indexes from 0.
CurrentQuestion == state.questions[state.currentQuestionIndex + 1]

\* A quiz is under way or finished: the quiz screen or the result screen is
\* shown (lines 547-548).
InQuiz == state.status \in {"active", "completed"}

\* renderQuiz dereferences the current question (lines 355, 407, 411): with no
\* question at the index the render throws.
RenderThrows(s) ==
    /\ s.status = "active"
    /\ s.currentQuestionIndex + 1 \notin DOMAIN s.questions

----------------------------------------------------------------------------
(* The generative-AI service (src/unnamed/part_000, lines 560-663).  What the  *)
(* remote model answers is the environment's choice; the two functions turn  *)
(* an answer into a value or an exception as their code does.                *)

\* The web part of the i-th grounding chunk; the second chunk has no uri.
Web(i) == [ title |-> ToString(i), uri |-> IF i = 2 THEN "" ELSE "https://source" ]

GroundingChunks(n) == [i \in 1..n |-> Web(i)]

HasUri(web) == web.uri # ""

\* Answers of the syllabus lookup: the call rejected, a text that is not JSON,
\* a JSON object without a "sections" key, and JSON objects with one.
LookupResponses ==
    { [ kind |-> "rejected",  sections |-> <<>>, chunks |-> <<>> ],
      [ kind |-> "malformed", sections |-> <<>>, chunks |-> GroundingChunks(1) ],
      [ kind |-> "nokey",     sections |-> <<>>, chunks |-> <<>> ],
      [ kind |-> "sections",  sections |-> <<>>, chunks |-> <<>> ],
      [ kind |-> "sections",
        sections |-> <<"Security Principles", "Network Security">>,
        chunks   |-> GroundingChunks(MaxChunks) ] }

\* Fault variant of getExamSections: no fallback list, whatever was read from
\* the answer is returned.
getExamSections_NoFallback(response) ==
    [ sections |-> response.sections,
      sources  |-> Slice(SelectSeq(response.chunks, HasUri), 3) ]

\* getExamSections (lines 570-614) on an answer that arrived: the sources are
\* the chunks with a uri, the sections are data.sections or the fallback, and a
\* text that does not parse gives the fallback with no sources.  An empty array
\* is truthy in JavaScript, so it is returned as it is.
getExamSections(response) ==
    LET sources == SelectSeq(response.chunks, HasUri)
    IN  IF response.kind = "malformed"
        THEN [ sections |-> FallbackSections, sources |-> <<>> ]
        ELSE [ sections |-> IF response.kind = "sections"
                            THEN response.sections
                            ELSE FallbackSections,
               sources  |-> Slice(sources, 3) ]

\* The options of a well-formed question.
FourOptions == <<"A", "B", "C", "D">>

\* A well-formed answer of n questions; the correct option moves with the index.
GoodQuestions(n) ==
    [i \in 1..n |-> [ options |-> FourOptions, correctAnswer |-> i % 4 ]]

\* A question with two options whose correctAnswer points at none of them.
BadQuestions == << [ options |-> <<"A", "B">>, correctAnswer |-> 4 ] >>

\* Answers of the question generation: the call rejected, a text that is not
\* JSON, JSON that is no array, and arrays (empty, well-formed, ill-formed).
GenerationResponses ==
    { [ kind |-> "rejected",  data |-> <<>> ],
      [ kind |-> "malformed", data |-> <<>> ],
      [ kind |-> "notarray",  data |-> <<>> ],
      [ kind |-> "array",     data |-> BadQuestions ] }
    \cup { [ kind |-> "array", data |-> GoodQuestions(n) ] : n \in 0..MaxQuestions }

\* questionsData.map((q, index) => ({...q, id: `q-${index}`})) (lines 655-658).
WithIds(data) ==
    [i \in 1..Len(data) |->
        [ id            |-> i - 1,
          options       |-> data[i].options,
          correctAnswer |-> data[i].correctAnswer ]]

\* Fault variant of generateQuestions: a failure to read the answer is
\* swallowed and gives no questions, as the lookup does with its fallback.
generateQuestions_SwallowsFailure(response) ==
    [ threw     |-> FALSE,
      message   |-> "",
      questions |-> IF response.kind \in {"malformed", "notarray"}
                    THEN <<>>
                    ELSE WithIds(response.data) ]

\* generateQuestions (lines 616-663) on an answer that arrived: JSON.parse or
\* the call of map on a value that is no array throws inside the try, and the
\* catch throws the fixed Error; an array is returned with ids, unvalidated.
generateQuestions(response) ==
    IF response.kind \in {"malformed", "notarray"}
    THEN [ threw |-> TRUE,  message |-> GenerateFailedMessage, questions |-> <<>> ]
    ELSE [ threw |-> FALSE, message |-> "", questions |-> WithIds(response.data) ]

----------------------------------------------------------------------------
Init ==
    /\ state = InitialState
    /\ selectedOption = Null
    /\ isAnswered = FALSE
    /\ inflight = <<>>
    /\ mounted = TRUE
    /\ timerEffect = "idle"
    /\ ticks = 0
    /\ expirations = 0

\* The timer effect after a commit caused by the interval or by a settled call
\* (lines 51 and 58): with 0 seconds in status active its else-branch is
\* outstanding, otherwise there is nothing for it to do.
EffectAfter(s) ==
    IF s.status = "active" /\ s.timeRemaining = 0 THEN "pending" ELSE "idle"

\* A user event queued an update while the effect was outstanding: the effect
\* runs before React renders again.
AfterUpdate == IF timerEffect = "pending" THEN "due" ELSE timerEffect

\* The screen on which the user acts is the committed one.
Rendered == mounted /\ timerEffect # "due"

----------------------------------------------------------------------------
(* The setup screen (renderSetup, lines 163-308), shown while the status is  *)
(* idle or selecting_section (line 544).                                     *)

\* The exam name input (lines 183-190), part of the form shown in status idle.
setExamName(name) ==
    /\ mounted
    /\ state.status = "idle"
    /\ state' = [state EXCEPT !.examName = name]
    /\ UNCHANGED <<selectedOption, isAnswered, inflight, mounted, timerEffect, ticks,
                 expirations>>

\* Fault variant of handleFetchSections: the form is shown on the whole setup
\* screen, in status selecting_section too.
handleFetchSections_ShownWhileSelecting ==
    /\ mounted
    /\ state.status \in {"idle", "selecting_section"}
    /\ IF Trim(state.examName) = <<>>
       THEN UNCHANGED <<state, inflight>>
       ELSE /\ state' = [state EXCEPT !.status = "fetching_sections",
                                      !.error = Undefined]
            /\ inflight' = Append(inflight, [call |-> "getExamSections", count |-> 0])
    /\ UNCHANGED <<selectedOption, isAnswered, mounted, timerEffect, ticks,
                 expirations>>

\* handleFetchSections up to its await (lines 70-77): the form's onSubmit
\* (line 180), shown in status idle.
handleFetchSections ==
    /\ mounted
    /\ state.status = "idle"
    /\ IF Trim(state.examName) = <<>>
       THEN UNCHANGED <<state, inflight>>
       ELSE /\ state' = [state EXCEPT !.status = "fetching_sections",
                                      !.error = Undefined]
            /\ inflight' = Append(inflight, [call |-> "getExamSections", count |-> 0])
    /\ UNCHANGED <<selectedOption, isAnswered, mounted, timerEffect, ticks,
                 expirations>>

\* handleFetchSections after its await (lines 78-86): the lookup settles.
fetchSectionsSettled(i, response) ==
    /\ mounted
    /\ i \in DOMAIN inflight
    /\ inflight[i].call = "getExamSections"
    /\ inflight' = Remove(inflight, i)
    /\ IF response.kind = "rejected"
       THEN state' = [state EXCEPT !.status = "idle", !.error = CallFailedMessage]
       ELSE LET syllabus == getExamSections(response)
            IN  state' = [state EXCEPT !.sections = syllabus.sections,
                                       !.sources  = syllabus.sources,
                                       !.status   = "selecting_section"]
    /\ UNCHANGED <<selectedOption, isAnswered, mounted, timerEffect, ticks,
                 expirations>>

\* A section button (lines 221-224), one per element of state.sections.
pickSection(i) ==
    /\ mounted
    /\ state.status = "selecting_section"
    /\ i \in DOMAIN state.sections
    /\ state' = [state EXCEPT !.selectedSection = state.sections[i]]
    /\ UNCHANGED <<selectedOption, isAnswered, inflight, mounted, timerEffect, ticks,
                 expirations>>

\* A question count button (lines 264-268).
pickQuestionCount(count) ==
    /\ mounted
    /\ state.status = "selecting_section"
    /\ count \in QuestionCounts
    /\ state' = [state EXCEPT !.questionCount = count]
    /\ UNCHANGED <<selectedOption, isAnswered, inflight, mounted, timerEffect, ticks,
                 expirations>>

\* Fault variant of goBack: the selected section is kept.
goBack_KeepsSection ==
    /\ mounted
    /\ state.status = "selecting_section"
    /\ state' = [state EXCEPT !.status = "idle"]
    /\ UNCHANGED <<selectedOption, isAnswered, inflight, mounted, timerEffect, ticks,
                 expirations>>

\* Fault variant of goBack: the Back button is shown while the lookup is awaited.
goBack_WhileFetching ==
    /\ mounted
    /\ state.status \in {"selecting_section", "fetching_sections"}
    /\ state' = [state EXCEPT !.status = "idle", !.selectedSection = NoSection]
    /\ UNCHANGED <<selectedOption, isAnswered, inflight, mounted, timerEffect, ticks,
                 expirations>>

\* The Back button (lines 290-291).
goBack ==
    /\ mounted
    /\ state.status = "selecting_section"
    /\ state' = [state EXCEPT !.status = "idle", !.selectedSection = NoSection]
    /\ UNCHANGED <<selectedOption, isAnswered, inflight, mounted, timerEffect, ticks,
                 expirations>>

\* !state.selectedSection (lines 90 and 297): null and the empty string are falsy.
NoSectionSelected == state.selectedSection \in {NoSection, ""}

\* Fault variant of handleGenerateQuestions: no test of the selected section.
handleGenerateQuestions_NoSectionCheck ==
    /\ mounted
    /\ state.status = "selecting_section"
    /\ state' = [state EXCEPT !.status = "generating", !.error = Undefined]
    /\ inflight' = Append(inflight,
           [call |-> "generateQuestions", count |-> state.questionCount])
    /\ UNCHANGED <<selectedOption, isAnswered, mounted, timerEffect, ticks,
                 expirations>>

\* Fault variant of handleGenerateQuestions: the Start Mock Test button stays
\* on screen while the generation is awaited.
handleGenerateQuestions_WhileGenerating ==
    /\ mounted
    /\ state.status \in {"selecting_section", "generating"}
    /\ IF NoSectionSelected
       THEN UNCHANGED <<state, inflight>>
       ELSE /\ state' = [state EXCEPT !.status = "generating", !.error = Undefined]
            /\ inflight' = Append(inflight,
                   [call |-> "generateQuestions", count |-> state.questionCount])
    /\ UNCHANGED <<selectedOption, isAnswered, mounted, timerEffect, ticks,
                 expirations>>

\* handleGenerateQuestions up to its await (lines 89-95): the Start Mock Test
\* button (lines 296-298).  The call keeps the questionCount of this render.
handleGenerateQuestions ==
    /\ mounted
    /\ state.status = "selecting_section"
    /\ IF NoSectionSelected
       THEN UNCHANGED <<state, inflight>>
       ELSE /\ state' = [state EXCEPT !.status = "generating", !.error = Undefined]
            /\ inflight' = Append(inflight,
                   [call |-> "generateQuestions", count |-> state.questionCount])
    /\ UNCHANGED <<selectedOption, isAnswered, mounted, timerEffect, ticks,
                 expirations>>

\* Fault variant of generateQuestionsSettled: the clock is set from the number
\* of questions received instead of the number asked for.
generateQuestionsSettled_TimeFromReceived(i, response) ==
    /\ mounted
    /\ i \in DOMAIN inflight
    /\ inflight[i].call = "generateQuestions"
    /\ inflight' = Remove(inflight, i)
    /\ LET result == generateQuestions(response)
       IN  IF response.kind = "rejected" \/ result.threw
           THEN /\ state' = [state EXCEPT
                       !.status = "selecting_section",
                       !.error  = IF response.kind = "rejected"
                                  THEN CallFailedMessage
                                  ELSE result.message]
                /\ UNCHANGED <<ticks, expirations>>
           ELSE /\ state' = [state EXCEPT
                       !.questions            = result.questions,
                       !.status               = "active",
                       !.currentQuestionIndex = 0,
                       !.score                = 0,
                       !.timeRemaining        = Len(result.questions) * SecondsPerQuestion,
                       !.isTimerRunning       = TRUE,
                       !.answers              = FillNull(Len(result.questions))]
                /\ ticks' = 0
                /\ expirations' = 0
    /\ mounted' = ~RenderThrows(state')
    /\ timerEffect' = EffectAfter(state')
    /\ UNCHANGED <<selectedOption, isAnswered>>

\* handleGenerateQuestions after its await (lines 96-108): the generation
\* settles.  The new state is rendered by renderQuiz, which throws when there
\* is no first question.
generateQuestionsSettled(i, response) ==
    /\ mounted
    /\ i \in DOMAIN inflight
    /\ inflight[i].call = "generateQuestions"
    /\ inflight' = Remove(inflight, i)
    /\ LET result == generateQuestions(response)
       IN  IF response.kind = "rejected" \/ result.threw
           THEN /\ state' = [state EXCEPT
                       !.status = "selecting_section",
                       !.error  = IF response.kind = "rejected"
                                  THEN CallFailedMessage
                                  ELSE result.message]
                /\ UNCHANGED <<ticks, expirations>>
           ELSE /\ state' = [state EXCEPT
                       !.questions            = result.questions,
                       !.status               = "active",
                       !.currentQuestionIndex = 0,
                       !.score                = 0,
                       !.timeRemaining        = inflight[i].count * SecondsPerQuestion,
                       !.isTimerRunning       = TRUE,
                       !.answers              = FillNull(Len(result.questions))]
                /\ ticks' = 0
                /\ expirations' = 0
    /\ mounted' = ~RenderThrows(state')
    /\ timerEffect' = EffectAfter(state')
    /\ UNCHANGED <<selectedOption, isAnswered>>

----------------------------------------------------------------------------
(* The quiz screen (renderQuiz, lines 354-498), shown while the status is    *)
(* active (line 547).                                                        *)

\* An option button (lines 432-436): disabled once the question is answered.
selectOption(idx) ==
    /\ Rendered
    /\ state.status = "active"
    /\ ~isAnswered
    /\ idx + 1 \in DOMAIN CurrentQuestion.options
    /\ selectedOption' = idx
    /\ timerEffect' = IF idx = selectedOption THEN timerEffect ELSE AfterUpdate
    /\ UNCHANGED <<state, isAnswered, inflight, mounted, ticks, expirations>>

\* Fault variant of handleAnswerSubmit: the early return forgets isAnswered.
handleAnswerSubmit_NoAnsweredCheck ==
    /\ Rendered
    /\ state.status = "active"
    /\ IF selectedOption = Null
       THEN UNCHANGED <<state, isAnswered, timerEffect>>
       ELSE LET isCorrect == selectedOption = CurrentQuestion.correctAnswer
            IN  /\ isAnswered' = TRUE
                /\ state' = [state EXCEPT
                       !.score   = IF isCorrect THEN @ + 1 ELSE @,
                       !.answers = [@ EXCEPT ![state.currentQuestionIndex + 1] =
                                                 selectedOption]]
                /\ timerEffect' = AfterUpdate
    /\ UNCHANGED <<selectedOption, inflight, mounted, ticks, expirations>>

\* Fault variant of handleAnswerSubmit: every submitted answer scores.
handleAnswerSubmit_AlwaysScores ==
    /\ Rendered
    /\ state.status = "active"
    /\ IF selectedOption = Null \/ isAnswered
       THEN UNCHANGED <<state, isAnswered, timerEffect>>
       ELSE /\ isAnswered' = TRUE
            /\ state' = [state EXCEPT
                   !.score   = @ + 1,
                   !.answers = [@ EXCEPT ![state.currentQuestionIndex + 1] =
                                             selectedOption]]
            /\ timerEffect' = AfterUpdate
    /\ UNCHANGED <<selectedOption, inflight, mounted, ticks, expirations>>

\* Fault variant of handleAnswerSubmit: the handler stays reachable on the
\* result screen.
handleAnswerSubmit_NoStatusGate ==
    /\ Rendered
    /\ InQuiz
    /\ IF selectedOption = Null \/ isAnswered
       THEN UNCHANGED <<state, isAnswered, timerEffect>>
       ELSE LET isCorrect == selectedOption = CurrentQuestion.correctAnswer
            IN  /\ isAnswered' = TRUE
                /\ state' = [state EXCEPT
                       !.score   = IF isCorrect THEN @ + 1 ELSE @,
                       !.answers = [@ EXCEPT ![state.currentQuestionIndex + 1] =
                                                 selectedOption]]
                /\ timerEffect' = AfterUpdate
    /\ UNCHANGED <<selectedOption, inflight, mounted, ticks, expirations>>

\* Fault variant of handleAnswerSubmit: setIsAnswered(true) is forgotten.
handleAnswerSubmit_NeverMarksAnswered ==
    /\ Rendered
    /\ state.status = "active"
    /\ IF selectedOption = Null \/ isAnswered
       THEN UNCHANGED <<state, timerEffect>>
       ELSE LET isCorrect == selectedOption = CurrentQuestion.correctAnswer
            IN  /\ state' = [state EXCEPT
                       !.score   = IF isCorrect THEN @ + 1 ELSE @,
                       !.answers = [@ EXCEPT ![state.currentQuestionIndex + 1] =
                                                 selectedOption]]
                /\ timerEffect' = AfterUpdate
    /\ UNCHANGED <<selectedOption, isAnswered, inflight, mounted, ticks, expirations>>

\* handleAnswerSubmit (lines 111-128): the Submit Answer button (lines 476-482).
handleAnswerSubmit ==
    /\ Rendered
    /\ state.status = "active"
    /\ IF selectedOption = Null \/ isAnswered
       THEN UNCHANGED <<state, isAnswered, timerEffect>>
       ELSE LET isCorrect == selectedOption = CurrentQuestion.correctAnswer
            IN  /\ isAnswered' = TRUE
                /\ state' = [state EXCEPT
                       !.score   = IF isCorrect THEN @ + 1 ELSE @,
                       !.answers = [@ EXCEPT ![state.currentQuestionIndex + 1] =
                                                 selectedOption]]
                /\ timerEffect' = AfterUpdate
    /\ UNCHANGED <<selectedOption, inflight, mounted, ticks, expirations>>

\* Fault variant of handleNextQuestion: the button is on screen before the
\* answer is submitted.
handleNextQuestion_BeforeSubmit ==
    /\ Rendered
    /\ state.status = "active"
    /\ IF state.currentQuestionIndex < Len(state.questions) - 1
       THEN /\ state' = [state EXCEPT !.currentQuestionIndex = @ + 1]
            /\ selectedOption' = Null
            /\ isAnswered' = FALSE
       ELSE /\ state' = [state EXCEPT !.status = "completed"]
            /\ UNCHANGED <<selectedOption, isAnswered>>
    /\ timerEffect' = AfterUpdate
    /\ UNCHANGED <<inflight, mounted, ticks, expirations>>

\* Fault variant of handleNextQuestion: the index is incremented on the last
\* question too.
handleNextQuestion_NoLastCheck ==
    /\ Rendered
    /\ state.status = "active"
    /\ isAnswered
    /\ state' = [state EXCEPT !.currentQuestionIndex = @ + 1]
    /\ selectedOption' = Null
    /\ isAnswered' = FALSE
    /\ timerEffect' = AfterUpdate
    /\ UNCHANGED <<inflight, mounted, ticks, expirations>>

\* handleNextQuestion (lines 130-141): the Next Question / Finish Quiz button,
\* which takes the place of Submit Answer once isAnswered (lines 475-490).
handleNextQuestion ==
    /\ Rendered
    /\ state.status = "active"
    /\ isAnswered
    /\ IF state.currentQuestionIndex < Len(state.questions) - 1
       THEN /\ state' = [state EXCEPT !.currentQuestionIndex = @ + 1]
            /\ selectedOption' = Null
            /\ isAnswered' = FALSE
       ELSE /\ state' = [state EXCEPT !.status = "completed"]
            /\ UNCHANGED <<selectedOption, isAnswered>>
    /\ timerEffect' = AfterUpdate
    /\ UNCHANGED <<inflight, mounted, ticks, expirations>>

\* Fault variant of toggleTimer: resuming starts the clock again from the full
\* time.
toggleTimer_RestartsClock ==
    /\ Rendered
    /\ state.status = "active"
    /\ state' = [state EXCEPT
           !.isTimerRunning = ~@,
           !.timeRemaining  = IF state.isTimerRunning
                              THEN @
                              ELSE state.questionCount * SecondsPerQuestion]
    /\ timerEffect' = AfterUpdate
    /\ UNCHANGED <<selectedOption, isAnswered, inflight, mounted, ticks, expirations>>

\* The pause / play button (lines 374-379).
toggleTimer ==
    /\ Rendered
    /\ state.status = "active"
    /\ state' = [state EXCEPT !.isTimerRunning = ~@]
    /\ timerEffect' = AfterUpdate
    /\ UNCHANGED <<selectedOption, isAnswered, inflight, mounted, ticks, expirations>>

\* Fault variant of IntervalSet: the interval is set at 0 seconds too.
IntervalSet_NoZeroCheck ==
    /\ state.status = "active"
    /\ state.isTimerRunning

\* The first condition of the timer effect (line 51): an interval is set.
IntervalSet ==
    /\ state.status = "active"
    /\ state.isTimerRunning
    /\ state.timeRemaining > 0

\* Fault variant of tick: the interval keeps running while paused.
tick_IgnoresPause ==
    /\ mounted
    /\ state.status = "active"
    /\ state.timeRemaining > 0
    /\ state' = [state EXCEPT !.timeRemaining = @ - 1]
    /\ timerEffect' = EffectAfter(state')
    /\ ticks' = ticks + 1
    /\ UNCHANGED <<selectedOption, isAnswered, inflight, mounted, expirations>>

\* The interval's callback (lines 52-57).
tick ==
    /\ mounted
    /\ IntervalSet
    /\ state' = [state EXCEPT !.timeRemaining = @ - 1]
    /\ timerEffect' = EffectAfter(state')
    /\ ticks' = ticks + 1
    /\ UNCHANGED <<selectedOption, isAnswered, inflight, mounted, expirations>>

\* Fault variant of timerExpired: isTimerRunning is left as it is.
timerExpired_KeepsRunning ==
    /\ mounted
    /\ timerEffect # "idle"
    /\ state' = [state EXCEPT !.status = "completed"]
    /\ timerEffect' = "idle"
    /\ expirations' = expirations + 1
    /\ UNCHANGED <<selectedOption, isAnswered, inflight, mounted, ticks>>

\* Fault variant of timerExpired: a selected but unsubmitted option is recorded
\* and scored when the time runs out.
timerExpired_SubmitsPending ==
    /\ mounted
    /\ timerEffect # "idle"
    /\ LET pending == selectedOption # Null /\ ~isAnswered
           isCorrect == selectedOption = CurrentQuestion.correctAnswer
       IN  state' = [state EXCEPT
               !.status         = "completed",
               !.isTimerRunning = FALSE,
               !.score          = IF pending /\ isCorrect THEN @ + 1 ELSE @,
               !.answers        = IF pending
                                  THEN [@ EXCEPT ![state.currentQuestionIndex + 1] =
                                                     selectedOption]
                                  ELSE @]
    /\ timerEffect' = "idle"
    /\ expirations' = expirations + 1
    /\ UNCHANGED <<selectedOption, isAnswered, inflight, mounted, ticks>>

\* The else-branch of the timer effect (lines 58-60), run for the render that
\* showed 0 seconds in status active; its update is applied to whatever the
\* state is by then.
timerExpired ==
    /\ mounted
    /\ timerEffect # "idle"
    /\ state' = [state EXCEPT !.status = "completed", !.isTimerRunning = FALSE]
    /\ timerEffect' = "idle"
    /\ expirations' = expirations + 1
    /\ UNCHANGED <<selectedOption, isAnswered, inflight, mounted, ticks>>

----------------------------------------------------------------------------
(* The result screen (renderCompleted, lines 500-539), shown while the       *)
(* status is completed (line 548).                                           *)

\* Fault variant of resetQuiz: isAnswered is not cleared.
resetQuiz_KeepsAnswered ==
    /\ Rendered
    /\ state.status = "completed"
    /\ state' = InitialState
    /\ selectedOption' = Null
    /\ ticks' = 0
    /\ expirations' = 0
    /\ UNCHANGED <<isAnswered, inflight, mounted, timerEffect>>

\* Fault variant of resetQuiz: the transient selection state is not cleared.
resetQuiz_KeepsSelection ==
    /\ Rendered
    /\ state.status = "completed"
    /\ state' = InitialState
    /\ ticks' = 0
    /\ expirations' = 0
    /\ UNCHANGED <<selectedOption, isAnswered, inflight, mounted, timerEffect>>

\* resetQuiz (lines 143-160): the Try Another Exam button (line 531).
resetQuiz ==
    /\ Rendered
    /\ state.status = "completed"
    /\ state' = [ examName             |-> <<>>,
                  sections             |-> <<>>,
                  sources              |-> <<>>,
                  selectedSection      |-> NoSection,
                  questionCount        |-> 5,
                  timeRemaining        |-> 0,
                  isTimerRunning       |-> FALSE,
                  questions            |-> <<>>,
                  currentQuestionIndex |-> 0,
                  score                |-> 0,
                  answers              |-> <<>>,
                  status               |-> "idle",
                  error                |-> Undefined ]
    /\ selectedOption' = Null
    /\ isAnswered' = FALSE
    /\ ticks' = 0
    /\ expirations' = 0
    /\ UNCHANGED <<inflight, mounted, timerEffect>>

----------------
Next ==
    \/ \E name \in ExamNames : setExamName(name)
    \/ handleFetchSections
    \/ \E i \in DOMAIN inflight, response \in LookupResponses :
           fetchSectionsSettled(i, response)
    \/ \E i \in 1..Len(FallbackSections) : pickSection(i)
    \/ \E count \in {c \in QuestionCounts : c <= MaxQuestionCount} :
           pickQuestionCount(count)
    \/ goBack
    \/ handleGenerateQuestions
    \/ \E i \in DOMAIN inflight, response \in GenerationResponses :
           generateQuestionsSettled(i, response)
    \/ \E idx \in 0..(Len(FourOptions) - 1) : selectOption(idx)
    \/ handleAnswerSubmit
    \/ handleNextQuestion
    \/ toggleTimer
    \/ tick
    \/ timerExpired
    \/ resetQuiz

Spec == Init /\ [][Next]_vars

----------------------------------------------------------------------------
(* The result screen (renderCompleted, lines 500-539).                       *)

\* Fault variant of percentage: the quotient is cut off instead of rounded.
percentage_Truncated ==
    (100 * state.score) \div Len(state.questions)

\* Math.round((state.score / state.questions.length) * 100) (line 501), in
\* exact arithmetic: the nearest integer, a half rounded up.  The doubles of the
\* code give the same number for every length below 40 and for the lengths
\* 5, 10, 20 and 50 that can be asked for.
percentage ==
    (200 * state.score + Len(state.questions)) \div (2 * Len(state.questions))

----------------------------------------------------------------------------
(* Whole quizzes of up to MaxScenarioQuestions questions, finished by the    *)
(* user within MaxScenarioTicks seconds: the same handlers, with one exam    *)
(* name, one syllabus and a well-formed answer of the generation.            *)

MaxScenarioQuestions == 5

MaxScenarioTicks == 2

ScenarioResponses ==
    { [ kind |-> "array", data |-> GoodQuestions(n) ] : n \in 1..MaxScenarioQuestions }

ScenarioNext ==
    \/ \E name \in {n \in ExamNames : Trim(n) # <<>>} : setExamName(name)
    \/ handleFetchSections
    \/ \E i \in DOMAIN inflight, response \in {r \in LookupResponses : r.kind = "nokey"} :
           fetchSectionsSettled(i, response)
    \/ pickSection(1)
    \/ handleGenerateQuestions
    \/ \E i \in DOMAIN inflight, response \in ScenarioResponses :
           generateQuestionsSettled(i, response)
    \/ \E idx \in 0..(Len(FourOptions) - 1) : selectOption(idx)
    \/ handleAnswerSubmit
    \/ handleNextQuestion
    \/ toggleTimer
    \/ ticks < MaxScenarioTicks /\ tick
    \/ resetQuiz

ScenarioSpec == Init /\ [][ScenarioNext]_vars

\* The scheduling of the timer: the browser runs the interval callback while the
\* interval is set (line 52), and React runs the effect of a committed render
\* (lines 49-62).  The user's actions and the service's answers are not forced.
FairSpec == Spec /\ WF_vars(tick) /\ WF_vars(timerExpired)

----------------------------------------------------------------------------
(* Properties *)

\* The indices (from 1) of the questions answered with their correct option.
CorrectlyAnswered ==
    { i \in DOMAIN state.questions :
        i \in DOMAIN state.answers /\ state.answers[i] = state.questions[i].correctAnswer }

\* The seconds the running quiz started with.
TotalSeconds == state.questionCount * SecondsPerQuestion

\* C1: in status active, once answers[currentQuestionIndex] holds a chosen
\* option, no step (in particular no further submit, whatever option is
\* selected) changes score or answers; and within a session a slot of answers
\* that holds a chosen option keeps it: each slot is written at most once.
C1_SubmitOnAnsweredIsNoOp ==
    [][ /\ ( /\ state.status = "active"
             /\ state.currentQuestionIndex + 1 \in DOMAIN state.answers
             /\ state.answers[state.currentQuestionIndex + 1] # Null )
           => /\ state'.score = state.score
              /\ state'.answers = state.answers
        /\ (InQuiz /\ InQuiz')
           => \A i \in DOMAIN state.answers :
                  state.answers[i] # Null
                  => i \in DOMAIN state'.answers /\ state'.answers[i] = state.answers[i]
      ]_vars

\* C1 witness: the current question is answered and an option is still selected,
\* so a further submit would find something to submit.
C1_Witness ==
    /\ state.status = "active"
    /\ isAnswered
    /\ selectedOption # Null
    /\ state.answers[state.currentQuestionIndex + 1] = selectedOption
    /\ state.score = 1

\* C2: in every state with status active or completed the score is the number
\* of indices whose answer is the question's correctAnswer, and no step between
\* generation success and reset decreases the score.
C2_ScoreCountsCorrectAnswers ==
    [][ /\ InQuiz' => state'.score = Cardinality(CorrectlyAnswered)'
        /\ (InQuiz /\ InQuiz') => state'.score >= state.score
      ]_vars

\* C2 witness: ticks, a pause, a correct and a wrong answer and an advance have
\* all happened.
C2_Witness ==
    /\ state.status = "active"
    /\ ~state.isTimerRunning
    /\ ticks > 0
    /\ state.currentQuestionIndex = 1
    /\ state.score = 1
    /\ state.answers[1] = state.questions[1].correctAnswer
    /\ state.answers[2] # Null
    /\ state.answers[2] # state.questions[2].correctAnswer

\* C3: in every reachable state 0 <= timeRemaining <= questionCount * 60.
C3_TimeWithinBounds ==
    /\ state.timeRemaining >= 0
    /\ state.timeRemaining <= state.questionCount * 60

\* C3 witness: the timer has run down to zero, with a pause on the way.
C3_Witness ==
    /\ state.status = "active"
    /\ state.timeRemaining = 0
    /\ ticks = TotalSeconds
    /\ ~state.isTimerRunning

\* C4 as stated: every step that decreases timeRemaining is a tick, taken with
\* status active, the timer running and timeRemaining > 0, and decreases it by
\* exactly 1; in any other state no step decreases timeRemaining.
C4_Original_OnlyTicksDecreaseTime ==
    [][ state'.timeRemaining < state.timeRemaining
        => /\ state.status = "active"
           /\ state.isTimerRunning
           /\ state.timeRemaining > 0
           /\ state'.timeRemaining = state.timeRemaining - 1
      ]_vars

\* C4 amended: a step that decreases timeRemaining is either a tick, taken with
\* status active, the timer running and timeRemaining > 0, which decreases it
\* by exactly 1 and changes nothing else of the session, or the reset of a
\* completed session, which sets it to 0.
C4_OnlyTicksAndResetDecreaseTime ==
    [][ state'.timeRemaining < state.timeRemaining
        => \/ /\ state.status = "active"
              /\ state.isTimerRunning
              /\ state.timeRemaining > 0
              /\ state' = [state EXCEPT !.timeRemaining = state.timeRemaining - 1]
           \/ /\ state.status = "completed"
              /\ state'.status = "idle"
              /\ state'.timeRemaining = 0
      ]_vars

\* C4 witness: the timer has ticked and is now paused with time left.
C4_Witness ==
    /\ state.status = "active"
    /\ ~state.isTimerRunning
    /\ ticks > 0
    /\ state.timeRemaining > 0
    /\ state.timeRemaining = TotalSeconds - ticks

\* C5: during a quiz every interval callback has taken exactly one second off;
\* at 0 seconds in status active the forced completion is the timer's next
\* step; once it has happened the status is completed, the timer is stopped and
\* timeRemaining is 0 for as long as the quiz lasts; and it happens at most once
\* per quiz.  A quiz started at 300 s is thus completed with 0 s left after 301
\* timer steps: 300 callbacks and the completion.
C5_ForcedCompletionOnce ==
    InQuiz
    => /\ ticks = TotalSeconds - state.timeRemaining
       /\ expirations <= 1
       /\ (mounted /\ state.status = "active" /\ state.timeRemaining = 0)
          => (ENABLED timerExpired /\ ~ENABLED tick)
       /\ expirations = 1
          => /\ state.status = "completed"
             /\ ~state.isTimerRunning
             /\ state.timeRemaining = 0

\* C5 witness: the quiz of 5 questions after 300 callbacks and the completion.
C5_Witness ==
    /\ state.questionCount = 5
    /\ ticks = 300
    /\ expirations = 1
    /\ state.status = "completed"
    /\ state.timeRemaining = 0

\* C6: the forced transition from active to completed leaves score, answers,
\* questions and currentQuestionIndex as they are, whether or not the current
\* question has been answered.
C6_ForcedCompletionFrame ==
    [][ (state.status = "active" /\ expirations' = expirations + 1)
        => /\ state'.status = "completed"
           /\ state'.score = state.score
           /\ state'.answers = state.answers
           /\ state'.questions = state.questions
           /\ state'.currentQuestionIndex = state.currentQuestionIndex
      ]_vars

\* C6 witness: the time ran out on the last question of a quiz of two, with an
\* option selected but not submitted; the slot is unanswered and not scored.
C6_Witness ==
    /\ state.status = "completed"
    /\ expirations = 1
    /\ Len(state.questions) = 2
    /\ state.currentQuestionIndex = 1
    /\ state.answers[2] = Null
    /\ selectedOption = state.questions[2].correctAnswer
    /\ state.score = 1

C8_ScoreBounded ==
    /\ state.status = "active" => state.score <= state.currentQuestionIndex + 1
    /\ state.status = "completed" => state.score <= Len(state.questions)

\* C8 witness: every question so far answered correctly, on the second question.
C8_Witness ==
    /\ state.status = "active"
    /\ state.currentQuestionIndex = 1
    /\ state.score = state.currentQuestionIndex + 1

\* C9: advancing on the last question moves the status to completed and keeps
\* currentQuestionIndex; and whenever there are questions, currentQuestionIndex
\* is in [0, questions.length).
C9_IndexStaysInRange ==
    [][ /\ ( /\ state.status = "active"
             /\ isAnswered
             /\ state.currentQuestionIndex = Len(state.questions) - 1
             /\ handleNextQuestion )
           => /\ state'.status = "completed"
              /\ state'.currentQuestionIndex = state.currentQuestionIndex
        /\ Len(state'.questions) > 0
           => state'.currentQuestionIndex \in 0..(Len(state'.questions) - 1)
      ]_vars

\* C9 witness: a quiz of two questions finished by advancing from the last one.
C9_Witness ==
    /\ state.status = "completed"
    /\ expirations = 0
    /\ Len(state.questions) = 2
    /\ state.currentQuestionIndex = 1

\* C10: the step that leaves status completed (the reset) stores the initial
\* value of every session field and clears the selected option and the
\* answered flag.
C10_ResetRestoresInitialState ==
    [][ (state.status = "completed" /\ state'.status # "completed")
        => /\ state' = InitialState
           /\ state'.examName = <<>>
           /\ state'.sections = <<>>
           /\ state'.sources = <<>>
           /\ state'.questions = <<>>
           /\ state'.answers = <<>>
           /\ state'.selectedSection = NoSection
           /\ state'.questionCount = 5
           /\ state'.timeRemaining = 0
           /\ state'.isTimerRunning = FALSE
           /\ state'.currentQuestionIndex = 0
           /\ state'.score = 0
           /\ state'.error = Undefined
           /\ state'.status = "idle"
           /\ selectedOption' = Null
           /\ isAnswered' = FALSE
      ]_vars

\* C10 witness: a completed session with every field away from its initial
\* value that the result screen can show changed.
C10_Witness ==
    /\ state.status = "completed"
    /\ state.examName # <<>>
    /\ state.sections # <<>>
    /\ state.sources # <<>>
    /\ state.selectedSection # NoSection
    /\ state.questionCount # 5
    /\ state.timeRemaining > 0
    /\ state.isTimerRunning
    /\ state.questions # <<>>
    /\ state.currentQuestionIndex > 0
    /\ state.score > 0
    /\ selectedOption # Null
    /\ isAnswered

\* The status changes of the session's life cycle, as <<from, to>>.
StatusTransitions ==
    { <<"idle", "fetching_sections">>,
      <<"fetching_sections", "selecting_section">>,
      <<"fetching_sections", "idle">>,
      <<"selecting_section", "idle">>,
      <<"selecting_section", "generating">>,
      <<"generating", "active">>,
      <<"generating", "selecting_section">>,
      <<"active", "completed">>,
      <<"completed", "idle">> }

\* C11: every step that changes the status takes one of the nine transitions
\* idle -> fetching_sections, fetching_sections -> selecting_section,
\* fetching_sections -> idle, selecting_section -> idle, selecting_section ->
\* generating, generating -> active, generating -> selecting_section, active ->
\* completed, completed -> idle; so completed is left only to idle and active is
\* entered only from generating.
C11_StatusFollowsTransitions ==
    [][ state'.status # state.status
        => <<state.status, state'.status>> \in StatusTransitions ]_vars

\* C11 witness: a generation has failed back to selecting_section in a session
\* that had gone back to idle and looked the syllabus up again after an error.
C11_Witness ==
    /\ state.status = "selecting_section"
    /\ state.error = GenerateFailedMessage
    /\ state.questionCount = 10
    /\ state.sources # <<>>

\* The pending calls of one service function.
Pending(call) == SelectSeq(inflight, LAMBDA c : c.call = call)

\* C12: in every state at most one external call is pending, a pending lookup
\* goes with status fetching_sections and a pending generation with status
\* generating, and while a call is pending neither the submit of the exam name
\* nor the start of the test can be triggered.
C12_AtMostOneCallPending ==
    /\ Len(inflight) <= 1
    /\ Pending("getExamSections") # <<>> => state.status = "fetching_sections"
    /\ Pending("generateQuestions") # <<>> => state.status = "generating"
    /\ inflight # <<>>
       => /\ ~ENABLED handleFetchSections
          /\ ~ENABLED handleGenerateQuestions

\* C12 witness: a generation is pending for a count of 10 questions, after an
\* earlier lookup has settled.
C12_Witness ==
    /\ Pending("generateQuestions") # <<>>
    /\ inflight[1].count = 10
    /\ state.status = "generating"
    /\ state.sections # <<>>

\* C13: a result is applied only to a session that waits for it: a step in which
\* a lookup settles starts in status fetching_sections, a step in which a
\* generation settles starts in status generating, and the sections, sources and
\* questions change in no other step but a reset.
C13_ResultsAppliedOnlyWhileWaiting ==
    [][ /\ Len(Pending("getExamSections")') < Len(Pending("getExamSections"))
           => state.status = "fetching_sections"
        /\ Len(Pending("generateQuestions")') < Len(Pending("generateQuestions"))
           => state.status = "generating"
        /\ (state'.sections # state.sections \/ state'.sources # state.sources)
           => \/ state.status = "fetching_sections"
              \/ state.status = "completed" /\ state' = InitialState
        /\ state'.questions # state.questions
           => \/ state.status = "generating"
              \/ state.status = "completed" /\ state' = InitialState
      ]_vars

\* C13 witness: a lookup has settled into a session that was waiting for it and
\* its sections and sources have been applied.
C13_Witness ==
    /\ state.status = "selecting_section"
    /\ inflight = <<>>
    /\ Len(state.sections) = 2
    /\ Len(state.sources) = 3
    /\ state.error = Undefined

\* The answers with which a call fails: the lookup rejects; the generation
\* rejects, or its text is not JSON, or the JSON is no array of questions.
FailedLookups == { r \in LookupResponses : r.kind = "rejected" }

FailedGenerations ==
    { r \in GenerationResponses : r.kind \in {"rejected", "malformed", "notarray"} }

\* An error message is shown.
ErrorSet(s) == s.error \notin {Undefined, ""}

\* C14: a failed lookup takes the session from fetching_sections to idle with a
\* non-empty error, and a failed generation (a response that is not valid JSON
\* included) takes it from generating to selecting_section with a non-empty
\* error and questions still empty; no failure leaves the status in
\* fetching_sections or generating.
C14_FailuresReturnWithError ==
    [][ \A i \in DOMAIN inflight :
          /\ \A response \in FailedLookups :
                fetchSectionsSettled(i, response)
                => /\ state.status = "fetching_sections"
                   /\ state'.status = "idle"
                   /\ ErrorSet(state')
          /\ \A response \in FailedGenerations :
                generateQuestionsSettled(i, response)
                => /\ state.status = "generating"
                   /\ state'.status = "selecting_section"
                   /\ ErrorSet(state')
                   /\ state'.questions = <<>>
      ]_vars

\* C14 witness: a generation has failed for a chosen section and its message is
\* shown on the section screen.
C14_Witness ==
    /\ state.status = "selecting_section"
    /\ state.selectedSection = "Network Security"
    /\ ErrorSet(state)
    /\ state.questions = <<>>
    /\ inflight = <<>>

\* The lookup answers that cannot be read: no JSON, or JSON without sections.
UnreadableLookups == { r \in LookupResponses : r.kind \in {"malformed", "nokey"} }

\* C15: a lookup whose response cannot be parsed or carries no sections key is
\* no error: the step takes the session from fetching_sections to
\* selecting_section with the four fallback sections and the error still unset.
C15_UnreadableLookupFallsBack ==
    [][ \A i \in DOMAIN inflight, response \in UnreadableLookups :
          fetchSectionsSettled(i, response)
          => /\ state.status = "fetching_sections"
             /\ state'.status = "selecting_section"
             /\ state'.sections = << "General Knowledge", "Core Concepts",
                                     "Advanced Topics", "Practice Set" >>
             /\ state'.error = Undefined
      ]_vars

\* C15 witness: the section screen shows the four fallback sections, without
\* sources and without an error.
C15_Witness ==
    /\ state.status = "selecting_section"
    /\ Len(state.sections) = 4
    /\ state.sections[4] = "Practice Set"
    /\ state.sources = <<>>
    /\ state.error = Undefined
    /\ state.selectedSection = NoSection

\* A question as the quiz needs it: four options and a correctAnswer among them.
WellFormed(q) == Len(q.options) = 4 /\ q.correctAnswer \in 0..3

\* C16: in every state with status active the questions are non-empty and each
\* of them has exactly 4 options and 0 <= correctAnswer < 4, because a response
\* that is empty or holds an ill-formed question fails the generation.
C16_ActiveQuestionsWellFormed ==
    state.status = "active"
    => /\ state.questions # <<>>
       /\ \A i \in DOMAIN state.questions : WellFormed(state.questions[i])

\* C17: the step of a successful generation enters active with
\* currentQuestionIndex 0, score 0, answers as long as questions and all
\* unanswered, the timer running, and timeRemaining 60 times the questionCount
\* that was selected when the test was started.
C17_GenerationSuccessStartsQuiz ==
    [][ (state.status = "generating" /\ state'.status = "active")
        => /\ state'.currentQuestionIndex = 0
           /\ state'.score = 0
           /\ Len(state'.answers) = Len(state'.questions)
           /\ \A i \in DOMAIN state'.answers : state'.answers[i] = Null
           /\ state'.isTimerRunning
           /\ Pending("generateQuestions") # <<>>
           /\ state'.timeRemaining = Pending("generateQuestions")[1].count * 60
           /\ state'.questionCount = Pending("generateQuestions")[1].count
      ]_vars

\* C17 witness: a quiz of two questions has just started for a count of 10.
C17_Witness ==
    /\ state.status = "active"
    /\ ticks = 0
    /\ state.questionCount = 10
    /\ state.timeRemaining = 600
    /\ Len(state.questions) = 2
    /\ state.answers = <<Null, Null>>
    /\ selectedOption = Null

\* C18: a generation is invoked only with a section selected: the start of the
\* test with no section changes nothing and makes no call, so in every state
\* with status generating or active selectedSection is set.
C18_GenerationNeedsSection ==
    [][ /\ (state.selectedSection = NoSection /\ handleGenerateQuestions)
           => state' = state /\ inflight' = inflight
        /\ Len(Pending("generateQuestions")') > Len(Pending("generateQuestions"))
           => state.selectedSection # NoSection
        /\ state'.status \in {"generating", "active"}
           => state'.selectedSection # NoSection
      ]_vars

\* C18 witness: a generation is awaited for a section picked from the syllabus.
C18_Witness ==
    /\ state.status = "generating"
    /\ state.selectedSection = "Security Principles"
    /\ Pending("generateQuestions") # <<>>

\* C19: in status active the step of the pause / resume control flips
\* isTimerRunning and leaves every other field, timeRemaining, status, score,
\* answers and currentQuestionIndex among them, as it was; and in a paused
\* quiz no step is a tick or changes timeRemaining, so resuming continues from
\* the same timeRemaining.
C19_PauseKeepsEverythingElse ==
    [][ /\ ( /\ state.status = "active"
             /\ state'.isTimerRunning # state.isTimerRunning
             /\ expirations' = expirations )
           => state' = [state EXCEPT !.isTimerRunning = ~state.isTimerRunning]
        /\ (state.status = "active" /\ ~state.isTimerRunning)
           => /\ ticks' = ticks
              /\ state'.timeRemaining = state.timeRemaining
      ]_vars

\* C19 witness: a quiz paused on its second question after three ticks, with the
\* time it had when it was paused.
C19_Witness ==
    /\ state.status = "active"
    /\ ~state.isTimerRunning
    /\ ticks = 3
    /\ state.timeRemaining = TotalSeconds - 3
    /\ state.currentQuestionIndex = 1

\* The quiz is paused.
Paused == state.status = "active" /\ ~state.isTimerRunning

\* C20: with the timer scheduled fairly, a session that is active with the timer
\* running reaches completed unless it is paused, whatever the user does.
C20_RunningQuizCompletes ==
    (state.status = "active" /\ state.isTimerRunning)
        ~> (state.status = "completed" \/ Paused)

\* C20, of the sessions whose quiz screen could be rendered: with the timer
\* scheduled fairly, a running quiz on screen reaches completed unless it is
\* paused.
C20_RenderedQuizCompletes ==
    (mounted /\ state.status = "active" /\ state.isTimerRunning)
        ~> (state.status = "completed" \/ Paused)

\* Every question of the quiz has a recorded answer.
AllAnswered ==
    /\ Len(state.answers) = Len(state.questions)
    /\ \A i \in DOMAIN state.answers : state.answers[i] # Null

\* The distance of a from b.
Distance(a, b) == IF a >= b THEN a - b ELSE b - a

CurrentAnswerRecorded ==
    /\ state.currentQuestionIndex + 1 \in DOMAIN state.answers
    /\ state.answers[state.currentQuestionIndex + 1] # Null

\* C22: advancing is possible only after the current answer is recorded: in
\* every state with status active or completed every index below
\* currentQuestionIndex has a chosen option in answers, and a completion made
\* by advancing, not by the timer, leaves every slot of answers set.
C22_AdvanceOnlyAfterAnswer ==
    [][ /\ InQuiz'
           => \A i \in 1..state'.currentQuestionIndex :
                  i \in DOMAIN state'.answers /\ state'.answers[i] # Null
        /\ ( /\ state.status = "active"
             /\ state'.status = "completed"
             /\ expirations' = expirations )
           => AllAnswered'
        /\ (ENABLED handleNextQuestion) => CurrentAnswerRecorded
      ]_vars

\* C22 witness: a quiz of two questions completed by advancing past the last
\* one with time left, one answer wrong and one correct.
C22_Witness ==
    /\ state.status = "completed"
    /\ expirations = 0
    /\ state.timeRemaining > 0
    /\ Len(state.questions) = 2
    /\ AllAnswered
    /\ state.score = 1

\* C23: in every state with status active isAnswered is true exactly when
\* answers holds a chosen option for the current question, and every step that
\* enters active enters it with isAnswered false and no option selected.
C23_AnsweredFlagAgreesWithRecord ==
    [][ /\ state'.status = "active" => (isAnswered' <=> CurrentAnswerRecorded')
        /\ (state.status # "active" /\ state'.status = "active")
           => (~isAnswered' /\ selectedOption' = Null)
      ]_vars

\* C23 witness: the second question is answered with a submitted option while
\* the first one stays recorded.
C23_Witness ==
    /\ state.status = "active"
    /\ state.currentQuestionIndex = 1
    /\ isAnswered
    /\ CurrentAnswerRecorded
    /\ selectedOption = state.answers[2]

\* C24: in every state with status completed the timer is stopped, whether the
\* completion was forced by the timer or made by advancing past the last
\* question.
C24_CompletedTimerStopped ==
    state.status = "completed" => ~state.isTimerRunning

\* The elements of a list.
Range(s) == { s[i] : i \in DOMAIN s }

\* C25: in every state selectedSection is none or an element of the current
\* sections, across lookups, section picks, going back and failed generations.
C25_SelectedSectionInSections ==
    state.selectedSection = NoSection \/ state.selectedSection \in Range(state.sections)

\* C25 witness: a section of the fallback syllabus is still selected after a
\* generation for it has failed.
C25_Witness ==
    /\ state.status = "selecting_section"
    /\ state.selectedSection = "Practice Set"
    /\ state.sections = FallbackSections
    /\ ErrorSet(state)

====
